---- MODULE Spec2Model ----
(***************************************************************************)
(* Model of crates/relayer/src/chain/requests.rs: the height selector      *)
(* (QueryHeight) and its two conversions, the pagination descriptor, the   *)
(* typed requests with their wire projections, and the cross-chain query   *)
(* request.                                                                *)
(*                                                                         *)
(* Every operation of the file is a pure function.  An operation is an     *)
(* operator; an action draws the operation's input from a bounded set,     *)
(* applies the operator and records input and output.                      *)
(*                                                                         *)
(* Representation.                                                         *)
(*   u64      four 16-bit limbs, most significant first: <<l3,l2,l1,l0>>.  *)
(*            (TLC's integers are 32-bit; the limbs keep the full width.)  *)
(*   String   identifiers are TLA+ strings; the strings whose characters   *)
(*            the code inspects (the hex path, the metadata value, the     *)
(*            decoded text) are sequences of bytes.                        *)
(*   Result   [tag |-> "Ok", val |-> v]   / [tag |-> "Err", err |-> kind]    *)
(*   Option   [tag |-> "Some", val |-> v] / [tag |-> "None"]                *)
(***************************************************************************)
EXTENDS Integers, Sequences, FiniteSets, TLC

VARIABLES op, kind, arg, arg2, res, res2

vars == <<op, kind, arg, arg2, res, res2>>

(***************************** bounds ************************************)

\* Revision numbers range over 0..MaxRevisionNumber.
MaxRevisionNumber == 1

\* Longest sequence list of a sequence-set request.
MaxSeqLen == 2

\* Longest enumerated path string (in characters).
MaxPathLen == 4

(***************************** Result / Option ***************************)

Ok(v) == [tag |-> "Ok", val |-> v]

Err(e) == [tag |-> "Err", err |-> e]

Some(v) == [tag |-> "Some", val |-> v]

None == [tag |-> "None"]

\* Placeholder of a variable the operation does not use.
Unused == [tag |-> "Unused"]

(***************************** u64 ***************************************)

LimbBase == 2^16

U64Lit(n) == <<0, 0, 0, n>>

U64_ZERO == U64Lit(0)

U64_MAX == <<LimbBase - 1, LimbBase - 1, LimbBase - 1, LimbBase - 1>>

\* i64::MAX = 2^63 - 1 as a u64.
I64_MAX == <<(LimbBase \div 2) - 1, LimbBase - 1, LimbBase - 1, LimbBase - 1>>

\* a <= b on u64 (lexicographic on the limbs).
U64Le(a, b) ==
    \/ a = b
    \/ \E i \in 1..4 : a[i] < b[i] /\ \A j \in 1..(i - 1) : a[j] = b[j]

\* Quotient and remainder of a u64 by 10 (long division over the limbs).
U64DivMod10(u) ==
    LET c3 == u[1]
        c2 == (c3 % 10) * LimbBase + u[2]
        c1 == (c2 % 10) * LimbBase + u[3]
        c0 == (c1 % 10) * LimbBase + u[4]
    IN  [q |-> <<c3 \div 10, c2 \div 10, c1 \div 10, c0 \div 10>>, r |-> c0 % 10]

RECURSIVE U64Digits(_)
\* The decimal digits of a u64, most significant first, no leading zero.
U64Digits(u) ==
    IF u[1] = 0 /\ u[2] = 0 /\ u[3] = 0 /\ u[4] < 10
    THEN <<u[4]>>
    ELSE LET dm == U64DivMod10(u) IN Append(U64Digits(dm.q), dm.r)

\* u64::to_string: the decimal digits as ASCII bytes ('0' is 48).
u64_to_string(u) ==
    LET d == U64Digits(u) IN [i \in 1..Len(d) |-> 48 + d[i]]

(***************************** Height, QueryHeight ***********************)

Height(n, h) == [revision_number |-> n, revision_height |-> h]

revision_height(height) == height.revision_height

Latest == [tag |-> "Latest"]

Specific(height) == [tag |-> "Specific", height |-> height]

\* Sampled revision heights: around 0, around i64::MAX, around u64::MAX.
RevisionHeightSamples ==
    { <<a, b, c, d>> : a \in {0, (LimbBase \div 2) - 1, LimbBase \div 2, LimbBase - 1},
                       b \in {0, LimbBase - 1},
                       c \in {0, LimbBase - 1},
                       d \in {0, 1, 10, LimbBase - 1} }

\* Height::new rejects a zero revision height: a Height never has one.
Heights ==
    { Height(U64Lit(n), h) : n \in 0..MaxRevisionNumber,
                             h \in RevisionHeightSamples \ {U64_ZERO} }

QueryHeights == {Latest} \cup { Specific(h) : h \in Heights }

\* The u64 both conversions start from.
QueryHeightValue(height_query) ==
    IF height_query.tag = "Latest"
    THEN U64_ZERO
    ELSE revision_height(height_query.height)

\* tendermint::block::Height::try_from(u64): the value must fit an i64.
TMBlockHeightFromU64(value) ==
    IF U64Le(value, I64_MAX) THEN Ok(value) ELSE Err("IntegerOverflow")

\* Result::map_err with a constant error constructor.
MapErr(r, e) == IF r.tag = "Err" THEN Err(e) ELSE r

\* A mutant: the conversion is assumed infallible (an unchecked cast).
TMBlockHeight_try_from_unchecked(height_query) ==
    Ok(QueryHeightValue(height_query))

\* A mutant: Latest is not mapped to the sentinel.
TMBlockHeight_try_from_latest_one(height_query) ==
    MapErr(TMBlockHeightFromU64(IF height_query.tag = "Latest"
                                THEN U64Lit(1)
                                ELSE revision_height(height_query.height)),
           "InvalidHeight")

\* A mutant: the revision number is used instead of the revision height.
TMBlockHeight_try_from_revision_number(height_query) ==
    MapErr(TMBlockHeightFromU64(IF height_query.tag = "Latest"
                                THEN U64_ZERO
                                ELSE height_query.height.revision_number),
           "InvalidHeight")

\* impl TryFrom<QueryHeight> for TMBlockHeight
TMBlockHeight_try_from(height_query) ==
    MapErr(TMBlockHeightFromU64(QueryHeightValue(height_query)), "InvalidHeight")

\* http::HeaderValue's byte test: visible ASCII, tab, or an opaque high byte.
IsValidHeaderByte(b) == (b >= 32 /\ b # 127) \/ b = 9

\* str::parse::<AsciiMetadataValue>
AsciiMetadataValueParse(s) ==
    IF \A i \in 1..Len(s) : IsValidHeaderByte(s[i])
    THEN Ok(s)
    ELSE Err("InvalidMetadataValue")

\* A mutant: the decimal string is truncated to its last digit.
AsciiMetadataValue_try_from_last_digit(height_query) ==
    LET s == u64_to_string(QueryHeightValue(height_query))
    IN  MapErr(AsciiMetadataValueParse(<<s[Len(s)]>>), "InvalidMetadata")

\* impl TryFrom<QueryHeight> for AsciiMetadataValue
AsciiMetadataValue_try_from(height_query) ==
    MapErr(AsciiMetadataValueParse(u64_to_string(QueryHeightValue(height_query))),
           "InvalidMetadata")

(***************************** identifiers ******************************)

\* The identifier newtypes (ClientId, ConnectionId, PortId, ChannelId, ChainId, ...)
\* wrap a validated string.
ClientId(s) == [ty |-> "ClientId", str |-> s]

ConnectionId(s) == [ty |-> "ConnectionId", str |-> s]

PortId(s) == [ty |-> "PortId", str |-> s]

ChannelId(s) == [ty |-> "ChannelId", str |-> s]

\* Display / to_string of a wrapped value: its string form.
to_string(x) == x.str

\* Sequence wraps a u64.
Sequence(u) == [ty |-> "Sequence", value |-> u]

\* impl From<Sequence> for u64
u64_from_Sequence(seq) == seq.value

ClientIds == {ClientId("07-tendermint-0"), ClientId("07-tendermint-1")}

ConnectionIds == {ConnectionId("connection-0"), ConnectionId("connection-1")}

PortIds == {PortId("transfer"), PortId("icq")}

ChannelIds == {ChannelId("channel-0"), ChannelId("channel-1")}

SequenceValues == {Sequence(U64Lit(1)), Sequence(U64_MAX)}

\* All sequences over S of length at most n.
SeqsUpTo(S, n) == UNION { [1..k -> S] : k \in 0..n }

SequenceLists == SeqsUpTo(SequenceValues, MaxSeqLen)

(***************************** PageRequest ******************************)

\* #[derive(Default)] for PageRequest
PageRequest_default ==
    [key |-> <<>>, offset |-> U64_ZERO, limit |-> U64_ZERO,
     count_total |-> FALSE, reverse |-> FALSE]

\* A mutant: all() forgets to raise the limit.
PageRequest_all_default_limit == PageRequest_default

\* PageRequest::all
PageRequest_all == [PageRequest_default EXCEPT !.limit = U64_MAX]

\* A mutant: offset and limit are exchanged.
RawPageRequest_from_swapped(request) ==
    [key |-> request.key,
     offset |-> request.limit,
     limit |-> request.offset,
     count_total |-> request.count_total,
     reverse |-> request.reverse]

\* A mutant: the direction is left at its default.
RawPageRequest_from_no_reverse(request) ==
    [key |-> request.key,
     offset |-> request.offset,
     limit |-> request.limit,
     count_total |-> request.count_total,
     reverse |-> FALSE]

\* impl From<PageRequest> for RawPageRequest
RawPageRequest_from(request) ==
    [key |-> request.key,
     offset |-> request.offset,
     limit |-> request.limit,
     count_total |-> request.count_total,
     reverse |-> request.reverse]

\* The page requests drawn: all(), the default, all() with one field changed,
\* and one with both a key and an offset set.
PageRequests ==
    { PageRequest_all,
      PageRequest_default,
      [PageRequest_all EXCEPT !.key = <<1>>],
      [PageRequest_all EXCEPT !.offset = U64Lit(1)],
      [PageRequest_all EXCEPT !.count_total = TRUE],
      [PageRequest_all EXCEPT !.reverse = TRUE],
      [key |-> <<1, 2>>, offset |-> U64Lit(7), limit |-> U64Lit(10),
       count_total |-> TRUE, reverse |-> TRUE] }

Paginations == {None} \cup { Some(p) : p \in PageRequests }

\* request.pagination.map(|pagination| pagination.into())
MapPagination(pagination) ==
    IF pagination.tag = "Some" THEN Some(RawPageRequest_from(pagination.val)) ELSE None

(***************************** typed requests and wire projection *******)

\* A mutant: the list is collected in reverse order.
MapSequences_reversed(sequences) ==
    [i \in 1..Len(sequences) |-> u64_from_Sequence(sequences[Len(sequences) + 1 - i])]

\* sequences.into_iter().map(|seq| seq.into()).collect()
MapSequences(sequences) ==
    [i \in 1..Len(sequences) |-> u64_from_Sequence(sequences[i])]

\* impl From<QueryClientStatesRequest> for RawQueryClientStatesRequest
RawQueryClientStatesRequest_from(request) ==
    [pagination |-> MapPagination(request.pagination)]

\* impl From<QueryConsensusStatesRequest> for RawQueryConsensusStatesRequest
RawQueryConsensusStatesRequest_from(request) ==
    [client_id |-> to_string(request.client_id),
     pagination |-> MapPagination(request.pagination)]

\* impl From<QueryConnectionsRequest> for RawQueryConnectionsRequest
RawQueryConnectionsRequest_from(request) ==
    [pagination |-> MapPagination(request.pagination)]

\* impl From<QueryClientConnectionsRequest> for RawQueryClientConnectionsRequest
RawQueryClientConnectionsRequest_from(request) ==
    [client_id |-> to_string(request.client_id)]

\* impl From<QueryConnectionChannelsRequest> for RawQueryConnectionChannelsRequest
RawQueryConnectionChannelsRequest_from(request) ==
    [connection |-> to_string(request.connection_id),
     pagination |-> MapPagination(request.pagination)]

\* impl From<QueryChannelsRequest> for RawQueryChannelsRequest
RawQueryChannelsRequest_from(request) ==
    [pagination |-> MapPagination(request.pagination)]

\* impl From<QueryChannelClientStateRequest> for RawQueryChannelClientStateRequest
RawQueryChannelClientStateRequest_from(request) ==
    [port_id |-> to_string(request.port_id),
     channel_id |-> to_string(request.channel_id)]

\* impl From<QueryPacketCommitmentsRequest> for RawQueryPacketCommitmentsRequest
RawQueryPacketCommitmentsRequest_from(request) ==
    [port_id |-> to_string(request.port_id),
     channel_id |-> to_string(request.channel_id),
     pagination |-> MapPagination(request.pagination)]

\* impl From<QueryUnreceivedPacketsRequest> for RawQueryUnreceivedPacketsRequest
RawQueryUnreceivedPacketsRequest_from(request) ==
    [port_id |-> to_string(request.port_id),
     channel_id |-> to_string(request.channel_id),
     packet_commitment_sequences |-> MapSequences(request.packet_commitment_sequences)]

\* impl From<QueryPacketAcknowledgementsRequest> for RawQueryPacketAcknowledgementsRequest
RawQueryPacketAcknowledgementsRequest_from(request) ==
    [port_id |-> to_string(request.port_id),
     channel_id |-> to_string(request.channel_id),
     pagination |-> MapPagination(request.pagination),
     packet_commitment_sequences |-> MapSequences(request.packet_commitment_sequences)]

\* impl From<QueryUnreceivedAcksRequest> for RawQueryUnreceivedAcksRequest
RawQueryUnreceivedAcksRequest_from(request) ==
    [port_id |-> to_string(request.port_id),
     channel_id |-> to_string(request.channel_id),
     packet_ack_sequences |-> MapSequences(request.packet_ack_sequences)]

\* impl From<QueryNextSequenceReceiveRequest> for RawQueryNextSequenceReceiveRequest
RawQueryNextSequenceReceiveRequest_from(request) ==
    [port_id |-> to_string(request.port_id),
     channel_id |-> to_string(request.channel_id)]

\* The height selectors drawn for a typed request.
RequestHeights ==
    { Latest,
      Specific(Height(U64Lit(0), U64Lit(1))),
      Specific(Height(U64Lit(1), U64Lit(1))),
      Specific(Height(U64Lit(0), U64Lit(10))) }

\* The typed requests that have a wire projection.
ProjectedKinds ==
    { "QueryClientStatesRequest", "QueryConsensusStatesRequest",
      "QueryConnectionsRequest", "QueryClientConnectionsRequest",
      "QueryConnectionChannelsRequest", "QueryChannelsRequest",
      "QueryChannelClientStateRequest", "QueryPacketCommitmentsRequest",
      "QueryUnreceivedPacketsRequest", "QueryPacketAcknowledgementsRequest",
      "QueryUnreceivedAcksRequest", "QueryNextSequenceReceiveRequest" }

\* The values of each typed request (the struct's fields).
Requests(k) ==
    CASE k = "QueryClientStatesRequest" -> [pagination : Paginations]
      [] k = "QueryConsensusStatesRequest" ->
            [client_id : ClientIds, pagination : Paginations]
      [] k = "QueryConnectionsRequest" -> [pagination : Paginations]
      [] k = "QueryClientConnectionsRequest" -> [client_id : ClientIds]
      [] k = "QueryConnectionChannelsRequest" ->
            [connection_id : ConnectionIds, pagination : Paginations]
      [] k = "QueryChannelsRequest" -> [pagination : Paginations]
      [] k = "QueryChannelClientStateRequest" ->
            [port_id : PortIds, channel_id : ChannelIds]
      [] k = "QueryPacketCommitmentsRequest" ->
            [port_id : PortIds, channel_id : ChannelIds, pagination : Paginations]
      [] k = "QueryUnreceivedPacketsRequest" ->
            [port_id : PortIds, channel_id : ChannelIds,
             packet_commitment_sequences : SequenceLists]
      [] k = "QueryPacketAcknowledgementsRequest" ->
            [port_id : PortIds, channel_id : ChannelIds, pagination : Paginations,
             packet_commitment_sequences : SequenceLists]
      [] k = "QueryUnreceivedAcksRequest" ->
            [port_id : PortIds, channel_id : ChannelIds,
             packet_ack_sequences : SequenceLists]
      [] k = "QueryNextSequenceReceiveRequest" ->
            [port_id : PortIds, channel_id : ChannelIds, height : RequestHeights]

\* request.into(): the From impl of the request's type.
WireFrom(k, request) ==
    CASE k = "QueryClientStatesRequest" -> RawQueryClientStatesRequest_from(request)
      [] k = "QueryConsensusStatesRequest" -> RawQueryConsensusStatesRequest_from(request)
      [] k = "QueryConnectionsRequest" -> RawQueryConnectionsRequest_from(request)
      [] k = "QueryClientConnectionsRequest" ->
            RawQueryClientConnectionsRequest_from(request)
      [] k = "QueryConnectionChannelsRequest" ->
            RawQueryConnectionChannelsRequest_from(request)
      [] k = "QueryChannelsRequest" -> RawQueryChannelsRequest_from(request)
      [] k = "QueryChannelClientStateRequest" ->
            RawQueryChannelClientStateRequest_from(request)
      [] k = "QueryPacketCommitmentsRequest" ->
            RawQueryPacketCommitmentsRequest_from(request)
      [] k = "QueryUnreceivedPacketsRequest" ->
            RawQueryUnreceivedPacketsRequest_from(request)
      [] k = "QueryPacketAcknowledgementsRequest" ->
            RawQueryPacketAcknowledgementsRequest_from(request)
      [] k = "QueryUnreceivedAcksRequest" -> RawQueryUnreceivedAcksRequest_from(request)
      [] k = "QueryNextSequenceReceiveRequest" ->
            RawQueryNextSequenceReceiveRequest_from(request)

(***************************** cross-chain query ************************)

\* Byte strings used as paths (ASCII).
Str_68656c6c6f == <<54, 56, 54, 53, 54, 99, 54, 99, 54, 102>>

Str_not_hex == <<110, 111, 116, 45, 104, 101, 120, 33>>

Str_hello == <<104, 101, 108, 108, 111>>

\* The characters of the enumerated paths: 6 8 c 3 a 9 f F g
PathAlphabet == {54, 56, 99, 51, 97, 57, 102, 70, 103}

\* hex paths of longer UTF-8 sequences: a 3-byte and a 4-byte character, a
\* truncated one, a surrogate, an overlong form, a code point above U+10FFFF.
LongPaths ==
    { Str_68656c6c6f,
      Str_not_hex,
      <<101, 50, 56, 50, 97, 99>>,
      <<102, 48, 57, 102, 57, 56, 56, 48>>,
      <<101, 50, 56, 50, 54, 56>>,
      <<101, 100, 97, 48, 56, 48>>,
      <<99, 48, 97, 102>>,
      <<102, 52, 57, 48, 56, 48, 56, 48>>,
      <<102, 48, 57, 102, 57, 56>> }

Paths == SeqsUpTo(PathAlphabet, MaxPathLen) \cup LongPaths

\* The payload of a cross-chain query event; each field has a display form.
Displayed(s) == [ty |-> "Display", str |-> s]

CrossChainQueryPackets ==
    [chain_id : {Displayed("ibc-0"), Displayed("ibc-1")},
     id : {Displayed("query-1"), Displayed("query-2")},
     path : {Displayed(Str_68656c6c6f), Displayed(Str_not_hex), Displayed(<<102, 102>>)},
     height : {Displayed("0-10"), Displayed("1-7")}]

\* IbcEvent: the cross-chain query variant carries the payload; the others do not.
IbcEvents ==
    { [type |-> "CrossChainQuery", packet |-> p] : p \in CrossChainQueryPackets }
    \cup { [type |-> t] : t \in {"NewBlock", "SendPacket", "UpdateClient", "ChainError"} }

IbcEventsWithHeight ==
    [event : IbcEvents,
     height : {Height(U64Lit(0), U64Lit(1)), Height(U64Lit(1), U64Lit(10))}]

\* IbcEvent::cross_chain_query_packet
cross_chain_query_packet(event) ==
    IF event.type = "CrossChainQuery" THEN Some(event.packet) ELSE None

\* A mutant: id and path are exchanged.
CrossChainQueryRequest_try_from_swapped(ibc_event_with_height) ==
    LET packet == cross_chain_query_packet(ibc_event_with_height.event)
    IN  IF packet.tag = "Some"
        THEN Ok([chain_id |-> to_string(packet.val.chain_id),
                 id |-> to_string(packet.val.path),
                 path |-> to_string(packet.val.id),
                 height |-> to_string(packet.val.height)])
        ELSE Err("InvalidTypeConversion")

\* impl TryFrom<&IbcEventWithHeight> for CrossChainQueryRequest
CrossChainQueryRequest_try_from(ibc_event_with_height) ==
    LET packet == cross_chain_query_packet(ibc_event_with_height.event)
    IN  IF packet.tag = "Some"
        THEN Ok([chain_id |-> to_string(packet.val.chain_id),
                 id |-> to_string(packet.val.id),
                 path |-> to_string(packet.val.path),
                 height |-> to_string(packet.val.height)])
        ELSE Err("InvalidTypeConversion")

IsHexChar(c) == c \in 48..57 \/ c \in 97..102 \/ c \in 65..70

\* hex's val(): the value of a hex digit.
HexVal(c) ==
    IF c \in 48..57 THEN c - 48
    ELSE IF c \in 97..102 THEN c - 97 + 10
    ELSE c - 65 + 10

\* hex::decode
hex_decode(s) ==
    IF Len(s) % 2 # 0 THEN Err("OddLength")
    ELSE IF \E i \in 1..Len(s) : ~IsHexChar(s[i]) THEN Err("InvalidHexCharacter")
    ELSE Ok([i \in 1..(Len(s) \div 2) |-> HexVal(s[2 * i - 1]) * 16 + HexVal(s[2 * i])])

\* core::str::utf8_char_width
utf8_char_width(b) ==
    IF b < 128 THEN 1
    ELSE IF b \in 194..223 THEN 2
    ELSE IF b \in 224..239 THEN 3
    ELSE IF b \in 240..244 THEN 4
    ELSE 0

\* safe_get of Utf8Chunks: the byte at i, or 0 past the end.
safe_get(xs, i) == IF i <= Len(xs) THEN xs[i] ELSE 0

\* byte & 192 == TAG_CONT
IsContinuation(b) == b \in 128..191

\* The second byte a 3-byte lead admits.
SecondOfThree(lead, b) ==
    \/ lead = 224 /\ b \in 160..191
    \/ lead \in 225..236 /\ b \in 128..191
    \/ lead = 237 /\ b \in 128..159
    \/ lead \in 238..239 /\ b \in 128..191

\* The second byte a 4-byte lead admits.
SecondOfFour(lead, b) ==
    \/ lead = 240 /\ b \in 144..191
    \/ lead \in 241..243 /\ b \in 128..191
    \/ lead = 244 /\ b \in 128..143

\* One step of Utf8Chunks::next at index i: whether a character is decoded, and
\* the index after the bytes consumed (an invalid step consumes the bytes read
\* before the offending one).
ScanChar(xs, i) ==
    LET byte == xs[i]
        w == utf8_char_width(byte)
    IN  IF w = 1 THEN [valid |-> TRUE, next |-> i + 1]
        ELSE IF w = 2 THEN
            IF ~IsContinuation(safe_get(xs, i + 1)) THEN [valid |-> FALSE, next |-> i + 1]
            ELSE [valid |-> TRUE, next |-> i + 2]
        ELSE IF w = 3 THEN
            IF ~SecondOfThree(byte, safe_get(xs, i + 1)) THEN [valid |-> FALSE, next |-> i + 1]
            ELSE IF ~IsContinuation(safe_get(xs, i + 2)) THEN [valid |-> FALSE, next |-> i + 2]
            ELSE [valid |-> TRUE, next |-> i + 3]
        ELSE IF w = 4 THEN
            IF ~SecondOfFour(byte, safe_get(xs, i + 1)) THEN [valid |-> FALSE, next |-> i + 1]
            ELSE IF ~IsContinuation(safe_get(xs, i + 2)) THEN [valid |-> FALSE, next |-> i + 2]
            ELSE IF ~IsContinuation(safe_get(xs, i + 3)) THEN [valid |-> FALSE, next |-> i + 3]
            ELSE [valid |-> TRUE, next |-> i + 4]
        ELSE [valid |-> FALSE, next |-> i + 1]

\* U+FFFD REPLACEMENT CHARACTER in UTF-8.
REPLACEMENT == <<239, 191, 189>>

RECURSIVE LossyFrom(_, _)
\* The lossy decoding of xs from index i on.
LossyFrom(xs, i) ==
    IF i > Len(xs) THEN <<>>
    ELSE LET s == ScanChar(xs, i)
         IN  (IF s.valid THEN SubSeq(xs, i, s.next - 1) ELSE REPLACEMENT)
                 \o LossyFrom(xs, s.next)

\* String::from_utf8_lossy(..).to_string()
from_utf8_lossy(xs) == LossyFrom(xs, 1)

RECURSIVE StrictFrom(_, _)
\* Whether xs decodes from index i on without an invalid sequence.
StrictFrom(xs, i) ==
    IF i > Len(xs) THEN TRUE
    ELSE LET s == ScanChar(xs, i) IN s.valid /\ StrictFrom(xs, s.next)

\* A mutant: strict decoding, None when the bytes are not UTF-8.
decode_path_or_none_strict(self) ==
    LET decoded == hex_decode(self.path)
    IN  IF decoded.tag = "Ok" /\ StrictFrom(decoded.val, 1)
        THEN Some(decoded.val)
        ELSE None

\* CrossChainQueryRequest::decode_path_or_none
decode_path_or_none(self) ==
    LET decoded == hex_decode(self.path)
    IN  IF decoded.tag = "Ok" THEN Some(from_utf8_lossy(decoded.val)) ELSE None

\* The requests whose path is decoded.
CrossChainQueryRequests ==
    [chain_id : {"ibc-0"}, id : {"query-1"}, path : Paths, height : {"0-10"}]

(***************************** state machine *****************************)

Init ==
    /\ op = "idle"
    /\ kind = "none"
    /\ arg = Unused
    /\ arg2 = Unused
    /\ res = Unused
    /\ res2 = Unused

\* TMBlockHeight::try_from(height_query)
ConvertBlockHeight ==
    /\ op = "idle"
    /\ \E q \in QueryHeights :
          /\ arg' = q
          /\ res' = TMBlockHeight_try_from(q)
    /\ op' = "block_height"
    /\ UNCHANGED <<kind, arg2, res2>>

\* AsciiMetadataValue::try_from(height_query)
ConvertMetadata ==
    /\ op = "idle"
    /\ \E q \in QueryHeights :
          /\ arg' = q
          /\ res' = AsciiMetadataValue_try_from(q)
    /\ op' = "metadata"
    /\ UNCHANGED <<kind, arg2, res2>>

\* Both conversions, applied to two height selectors.
ConvertPair ==
    /\ op = "idle"
    /\ \E q1 \in QueryHeights, q2 \in QueryHeights :
          /\ arg' = q1
          /\ arg2' = q2
          /\ res' = [block |-> TMBlockHeight_try_from(q1),
                     metadata |-> AsciiMetadataValue_try_from(q1)]
          /\ res2' = [block |-> TMBlockHeight_try_from(q2),
                      metadata |-> AsciiMetadataValue_try_from(q2)]
    /\ op' = "convert_pair"
    /\ UNCHANGED kind

\* RawPageRequest::from(request)
ConvertPageRequest ==
    /\ op = "idle"
    /\ \E p \in PageRequests :
          /\ arg' = p
          /\ res' = RawPageRequest_from(p)
    /\ op' = "page_request"
    /\ UNCHANGED <<kind, arg2, res2>>

\* request.into() for a typed request of kind k.
Project(k) ==
    /\ op = "idle"
    /\ \E request \in Requests(k) :
          /\ arg' = request
          /\ res' = WireFrom(k, request)
    /\ op' = "project"
    /\ kind' = k
    /\ UNCHANGED <<arg2, res2>>

\* request.into() for two typed requests of the same kind.
ProjectPair ==
    /\ op = "idle"
    /\ \E k \in ProjectedKinds :
          \E r1 \in Requests(k), r2 \in Requests(k) :
             /\ kind' = k
             /\ arg' = r1
             /\ arg2' = r2
             /\ res' = WireFrom(k, r1)
             /\ res2' = WireFrom(k, r2)
    /\ op' = "project_pair"

\* CrossChainQueryRequest::try_from(&ibc_event_with_height)
TryFromEvent ==
    /\ op = "idle"
    /\ \E e \in IbcEventsWithHeight :
          /\ arg' = e
          /\ res' = CrossChainQueryRequest_try_from(e)
    /\ op' = "try_from_event"
    /\ UNCHANGED <<kind, arg2, res2>>

\* request.decode_path_or_none()
DecodePath ==
    /\ op = "idle"
    /\ \E request \in CrossChainQueryRequests :
          /\ arg' = request
          /\ res' = decode_path_or_none(request)
    /\ op' = "decode_path"
    /\ UNCHANGED <<kind, arg2, res2>>

Next ==
    \/ ConvertBlockHeight
    \/ ConvertMetadata
    \/ ConvertPair
    \/ ConvertPageRequest
    \/ \E k \in ProjectedKinds : Project(k)
    \/ ProjectPair
    \/ TryFromEvent
    \/ DecodePath

Spec == Init /\ [][Next]_vars

(***************************** properties ********************************)

\* The revision height of a selector fits the transport's signed 64-bit height:
\* it is below 2^63, that is, its top limb is below 2^15.
Representable(height_query) ==
    height_query.tag = "Latest" \/ height_query.height.revision_height[1] < 2^15

\* The accumulator <<carry, l3, l2, l1, l0>> times ten plus the digit d.
MulAdd10(acc, d) ==
    LET t0 == acc[5] * 10 + d
        t1 == acc[4] * 10 + (t0 \div LimbBase)
        t2 == acc[3] * 10 + (t1 \div LimbBase)
        t3 == acc[2] * 10 + (t2 \div LimbBase)
        t4 == acc[1] * 10 + (t3 \div LimbBase)
    IN  <<t4, t3 % LimbBase, t2 % LimbBase, t1 % LimbBase, t0 % LimbBase>>

RECURSIVE DecimalValue(_)
\* The number a string of ASCII digits denotes, as <<carry, l3, l2, l1, l0>>.
DecimalValue(s) ==
    IF s = <<>> THEN <<0, 0, 0, 0, 0>>
    ELSE MulAdd10(DecimalValue(SubSeq(s, 1, Len(s) - 1)), s[Len(s)] - 48)

\* s is the decimal string of the u64 u: digits only, no leading zero, value u.
IsDecimalOf(s, u) ==
    /\ Len(s) \in 1..20
    /\ \A i \in 1..Len(s) : s[i] \in 48..57
    /\ Len(s) > 1 => s[1] # 48
    /\ DecimalValue(s) = <<0>> \o u

\* The path is a hex string: an even number of hex digits.
IsHexString(s) == Len(s) % 2 = 0 /\ \A i \in 1..Len(s) : IsHexChar(s[i])

\* One well-formed UTF-8 byte sequence of a single character (Unicode, table 3-7).
WellFormedChar(c) ==
    \/ Len(c) = 1 /\ c[1] \in 0..127
    \/ Len(c) = 2 /\ c[1] \in 194..223 /\ c[2] \in 128..191
    \/ /\ Len(c) = 3
       /\ c[3] \in 128..191
       /\ \/ c[1] = 224 /\ c[2] \in 160..191
          \/ c[1] \in 225..236 /\ c[2] \in 128..191
          \/ c[1] = 237 /\ c[2] \in 128..159
          \/ c[1] \in 238..239 /\ c[2] \in 128..191
    \/ /\ Len(c) = 4
       /\ c[3] \in 128..191
       /\ c[4] \in 128..191
       /\ \/ c[1] = 240 /\ c[2] \in 144..191
          \/ c[1] \in 241..243 /\ c[2] \in 128..191
          \/ c[1] = 244 /\ c[2] \in 128..143

RECURSIVE WellFormedUtf8(_)
\* The bytes are valid UTF-8: a concatenation of well-formed characters.
WellFormedUtf8(xs) ==
    \/ xs = <<>>
    \/ \E n \in 1..4 :
          /\ n <= Len(xs)
          /\ WellFormedChar(SubSeq(xs, 1, n))
          /\ WellFormedUtf8(SubSeq(xs, n + 1, Len(xs)))

\* xs contains U+FFFD.
HasReplacement(xs) ==
    \E i \in 1..(Len(xs) - 2) : SubSeq(xs, i, i + 2) = <<239, 191, 189>>

\* The result is an error.
IsErr(r) == "tag" \in DOMAIN r /\ r.tag = "Err"

ErrorKinds == {"InvalidHeight", "InvalidMetadata", "InvalidTypeConversion"}

ListKinds ==
    { "QueryConsensusStatesRequest", "QueryConnectionChannelsRequest",
      "QueryPacketCommitmentsRequest", "QueryPacketAcknowledgementsRequest",
      "QueryClientStatesRequest", "QueryConnectionsRequest", "QueryChannelsRequest" }

\* The wire pagination is the typed one: absent stays absent, present is the
\* same five fields.
PaginationCarried(typed, wire) ==
    /\ typed.tag = "None" => wire = None
    /\ typed.tag = "Some" =>
          /\ wire.tag = "Some"
          /\ DOMAIN wire.val = {"key", "offset", "limit", "count_total", "reverse"}
          /\ wire.val.key = typed.val.key
          /\ wire.val.offset = typed.val.offset
          /\ wire.val.limit = typed.val.limit
          /\ wire.val.count_total = typed.val.count_total
          /\ wire.val.reverse = typed.val.reverse

\* C1 (as stated): the block-height conversion yields 0 for Latest and the revision
\* height for Specific(h), for every unsigned 64-bit revision height.
C1_YieldsRevisionHeightAlways ==
    op = "block_height" =>
        res = Ok(IF arg.tag = "Latest" THEN <<0, 0, 0, 0>>
                 ELSE arg.height.revision_height)

\* C1 (amended): the block-height conversion yields 0 for Latest and the revision
\* height for Specific(h) whenever that revision height is at most 2^63 - 1,
\* whatever the revision number; above 2^63 - 1 it yields InvalidHeight instead.
C1_YieldsRevisionHeightWhenRepresentable ==
    op = "block_height" =>
        /\ arg.tag = "Latest" => res = Ok(<<0, 0, 0, 0>>)
        /\ (arg.tag = "Specific" /\ Representable(arg)) =>
              res = Ok(arg.height.revision_height)
        /\ (arg.tag = "Specific" /\ ~Representable(arg)) =>
              res = Err("InvalidHeight")

\* C1 witness: Specific(h) with revision number 1 and revision height 2^63 - 1
\* was converted.
C1_Witness ==
    /\ op = "block_height"
    /\ arg.tag = "Specific"
    /\ arg.height.revision_number = <<0, 0, 0, 1>>
    /\ arg.height.revision_height = <<32767, 65535, 65535, 65535>>
    /\ res = Ok(<<32767, 65535, 65535, 65535>>)

\* C2: the metadata conversion always succeeds; Latest gives "0", Specific(h) gives
\* the decimal string of h's revision height; it agrees with the block-height
\* conversion wherever that one succeeds.
C2_MetadataIsDecimalRevisionHeight ==
    /\ op = "metadata" =>
          /\ res.tag = "Ok"
          /\ arg.tag = "Latest" => res.val = <<48>>
          /\ arg.tag = "Specific" => IsDecimalOf(res.val, arg.height.revision_height)
    /\ op = "convert_pair" =>
          /\ res.metadata.tag = "Ok"
          /\ res.block.tag = "Ok" => IsDecimalOf(res.metadata.val, res.block.val)

\* C2 witness: u64::MAX was converted to "18446744073709551615".
C2_Witness ==
    /\ op = "metadata"
    /\ arg.tag = "Specific"
    /\ arg.height.revision_height = <<65535, 65535, 65535, 65535>>
    /\ res = Ok(<<49, 56, 52, 52, 54, 55, 52, 52, 48, 55, 51, 55, 48, 57, 53, 53, 49,
                  54, 49, 53>>)

\* C3: the block-height conversion returns a value exactly when the revision height
\* is representable and InvalidHeight (and no value) otherwise; the only errors an
\* operation returns are InvalidHeight, InvalidMetadata and InvalidTypeConversion.
C3_CheckedConversionAndErrorKinds ==
    /\ op = "block_height" =>
          /\ res.tag = "Ok" <=> Representable(arg)
          /\ res.tag = "Err" <=> ~Representable(arg)
          /\ res.tag = "Err" => (res.err = "InvalidHeight" /\ "val" \notin DOMAIN res)
    /\ op = "convert_pair" =>
          \A r \in {res.block, res.metadata, res2.block, res2.metadata} :
             IsErr(r) => r.err \in ErrorKinds
    /\ op # "convert_pair" =>
          /\ IsErr(res) => res.err \in ErrorKinds
          /\ IsErr(res2) => res2.err \in ErrorKinds
    /\ IsErr(res) => op \in {"block_height", "metadata", "try_from_event"}

\* C3 witness: the revision height 2^63 was refused with InvalidHeight.
C3_Witness ==
    /\ op = "block_height"
    /\ arg.tag = "Specific"
    /\ arg.height.revision_height = <<32768, 0, 0, 0>>
    /\ res = Err("InvalidHeight")

\* C4: try_from fails with InvalidTypeConversion on an event without a cross-chain
\* query payload; with one it succeeds and each of chain_id, id, path, height is
\* the display string of the payload's field of that name.
C4_TryFromEvent ==
    op = "try_from_event" =>
        /\ arg.event.type # "CrossChainQuery" => res = Err("InvalidTypeConversion")
        /\ arg.event.type = "CrossChainQuery" =>
              /\ res.tag = "Ok"
              /\ DOMAIN res.val = {"chain_id", "id", "path", "height"}
              /\ res.val.chain_id = to_string(arg.event.packet.chain_id)
              /\ res.val.id = to_string(arg.event.packet.id)
              /\ res.val.path = to_string(arg.event.packet.path)
              /\ res.val.height = to_string(arg.event.packet.height)

\* C4 witness: an event with a payload was converted.
C4_Witness ==
    /\ op = "try_from_event"
    /\ arg.event.type = "CrossChainQuery"
    /\ res.tag = "Ok"
    /\ res.val.chain_id = "ibc-1"
    /\ res.val.id = "query-2"
    /\ res.val.path = Str_68656c6c6f
    /\ res.val.height = "1-7"

\* C5 (as stated): decode_path_or_none returns None on any decoding failure, when
\* the path is not hex and when the decoded bytes are not valid UTF-8, and Some
\* only when the path decodes successfully.
C5_NoneOnAnyDecodingFailure ==
    op = "decode_path" =>
        LET failed == \/ ~IsHexString(arg.path)
                      \/ ~WellFormedUtf8(hex_decode(arg.path).val)
        IN  /\ failed => res = None
            /\ res.tag = "Some" => ~failed

\* C5 (amended): decode_path_or_none returns None exactly when the path is not a
\* hex string; for a hex string it returns Some(text): the decoded bytes when they
\* are valid UTF-8, and otherwise their lossy decoding, valid UTF-8 in which
\* U+FFFD stands for each invalid sequence.  "68656c6c6f" gives Some("hello"),
\* "not-hex!" gives None.
C5_NoneExactlyWhenNotHex ==
    op = "decode_path" =>
        /\ res = None <=> ~IsHexString(arg.path)
        /\ IsHexString(arg.path) =>
              LET bytes == hex_decode(arg.path).val
              IN  /\ res.tag = "Some"
                  /\ WellFormedUtf8(bytes) => res.val = bytes
                  /\ ~WellFormedUtf8(bytes) =>
                        /\ WellFormedUtf8(res.val)
                        /\ HasReplacement(res.val)
        /\ arg.path = <<54, 56, 54, 53, 54, 99, 54, 99, 54, 102>> =>
              res = Some(<<104, 101, 108, 108, 111>>)
        /\ arg.path = <<110, 111, 116, 45, 104, 101, 120, 33>> => res = None

\* C5 witness: the path "ff" (hex of a byte that is not UTF-8) was decoded to
\* Some(U+FFFD).
C5_Witness ==
    /\ op = "decode_path"
    /\ arg.path = <<102, 102>>
    /\ res = Some(<<239, 191, 189>>)

\* C6 (as stated): two typed requests of the same kind that differ in any field
\* project to different wire messages.
C6_ProjectionLossless ==
    (op = "project_pair" /\ arg # arg2) => res # res2

\* Two QueryNextSequenceReceiveRequests with the same port and channel.
SameNextSequenceReceiveTarget ==
    /\ kind = "QueryNextSequenceReceiveRequest"
    /\ arg.port_id = arg2.port_id
    /\ arg.channel_id = arg2.channel_id

\* C6 (amended): the projection loses exactly one field, the height selector of
\* QueryNextSequenceReceiveRequest: two typed requests of the same kind that differ
\* in any other field project to different wire messages, and two
\* QueryNextSequenceReceiveRequests that differ only in height project to the same
\* wire message, which has no height field.
C6_ProjectionLosslessExceptHeight ==
    op = "project_pair" =>
        /\ (arg # arg2 /\ ~SameNextSequenceReceiveTarget) => res # res2
        /\ SameNextSequenceReceiveTarget => res = res2
        /\ kind = "QueryNextSequenceReceiveRequest" =>
              DOMAIN res = {"port_id", "channel_id"}

\* C6 witness: two QueryNextSequenceReceiveRequests, one at Latest and one at a
\* specific height, were projected to the same wire message.
C6_Witness ==
    /\ op = "project_pair"
    /\ kind = "QueryNextSequenceReceiveRequest"
    /\ arg.height = Latest
    /\ arg2.height.tag = "Specific"
    /\ arg.port_id = arg2.port_id
    /\ arg.channel_id = arg2.channel_id
    /\ res = res2

\* C7: projecting a list-pagination request sets each scoping identifier to its
\* to_string() form and carries the pagination unchanged, absent or present,
\* also when both a key and an offset are set.
C7_ListProjection ==
    (op = "project" /\ kind \in ListKinds) =>
        /\ PaginationCarried(arg.pagination, res.pagination)
        /\ "client_id" \in DOMAIN arg => res.client_id = to_string(arg.client_id)
        /\ "connection_id" \in DOMAIN arg =>
              res.connection = to_string(arg.connection_id)
        /\ "port_id" \in DOMAIN arg => res.port_id = to_string(arg.port_id)
        /\ "channel_id" \in DOMAIN arg => res.channel_id = to_string(arg.channel_id)

\* C7 witness: a packet-commitments request whose pagination sets both a key and an
\* offset was projected.
C7_Witness ==
    /\ op = "project"
    /\ kind = "QueryPacketCommitmentsRequest"
    /\ arg.pagination.tag = "Some"
    /\ arg.pagination.val.key = <<1, 2>>
    /\ arg.pagination.val.offset = <<0, 0, 0, 7>>
    /\ res.port_id = "icq"
    /\ res.channel_id = "channel-1"
    /\ res.pagination.val.key = <<1, 2>>
    /\ res.pagination.val.offset = <<0, 0, 0, 7>>
    /\ res.pagination.val.limit = <<0, 0, 0, 10>>

\* The sequence list of a typed request and of its wire message.
TypedSequences ==
    IF kind = "QueryUnreceivedAcksRequest"
    THEN arg.packet_ack_sequences
    ELSE arg.packet_commitment_sequences

WireSequences ==
    IF kind = "QueryUnreceivedAcksRequest"
    THEN res.packet_ack_sequences
    ELSE res.packet_commitment_sequences

\* C8: projecting a request with a sequence list gives a list of the same length
\* whose i-th value is the number of the i-th sequence.
C8_SequencesPreserved ==
    (/\ op = "project"
     /\ kind \in {"QueryUnreceivedPacketsRequest", "QueryUnreceivedAcksRequest",
                  "QueryPacketAcknowledgementsRequest"}) =>
        /\ Len(WireSequences) = Len(TypedSequences)
        /\ \A i \in 1..Len(TypedSequences) : WireSequences[i] = TypedSequences[i].value
        /\ TypedSequences = <<>> => WireSequences = <<>>

\* C8 witness: the list (u64::MAX, 1) was projected in that order.
C8_Witness ==
    /\ op = "project"
    /\ kind = "QueryUnreceivedPacketsRequest"
    /\ arg.packet_commitment_sequences
          = <<Sequence(<<65535, 65535, 65535, 65535>>), Sequence(<<0, 0, 0, 1>>)>>
    /\ res.packet_commitment_sequences = <<<<65535, 65535, 65535, 65535>>, <<0, 0, 0, 1>>>>

\* C9: PageRequest::all() projects to empty key, offset 0, limit u64::MAX,
\* count_total false, reverse false; a packet-commitments request for
\* transfer/channel-0 built with it projects to those identifiers and that limit.
C9_AllProjectsToMaxLimit ==
    /\ (op = "page_request" /\ arg = PageRequest_all) =>
          res = [key |-> <<>>, offset |-> <<0, 0, 0, 0>>,
                 limit |-> <<65535, 65535, 65535, 65535>>,
                 count_total |-> FALSE, reverse |-> FALSE]
    /\ (/\ op = "project"
        /\ kind = "QueryPacketCommitmentsRequest"
        /\ arg = [port_id |-> PortId("transfer"), channel_id |-> ChannelId("channel-0"),
                  pagination |-> Some(PageRequest_all)]) =>
          /\ res.port_id = "transfer"
          /\ res.channel_id = "channel-0"
          /\ res.pagination.tag = "Some"
          /\ res.pagination.val.limit = <<65535, 65535, 65535, 65535>>

\* C9 witness: the packet-commitments request for transfer/channel-0 with
\* PageRequest::all() was projected.
C9_Witness ==
    /\ op = "project"
    /\ kind = "QueryPacketCommitmentsRequest"
    /\ arg.port_id = PortId("transfer")
    /\ arg.channel_id = ChannelId("channel-0")
    /\ arg.pagination = Some(PageRequest_all)
    /\ res.pagination.val.limit = <<65535, 65535, 65535, 65535>>

\* C10: a successful conversion gives 0 (or "0") if and only if the selector is
\* Latest, and two Specific selectors with the same revision height convert alike
\* whatever their revision numbers.
C10_ZeroIsLatest ==
    /\ (op = "block_height" /\ res.tag = "Ok") =>
          (res.val = <<0, 0, 0, 0>> <=> arg.tag = "Latest")
    /\ (op = "metadata" /\ res.tag = "Ok") =>
          (res.val = <<48>> <=> arg.tag = "Latest")
    /\ op \in {"block_height", "metadata"} => (arg.tag = "Latest" => res.tag = "Ok")
    /\ (/\ op = "convert_pair"
        /\ arg.tag = "Specific"
        /\ arg2.tag = "Specific"
        /\ arg.height.revision_height = arg2.height.revision_height) => res = res2

\* C10 witness: two Specific selectors with revision numbers 0 and 1 and the same
\* revision height 1 were converted, to 1 and "1".
C10_Witness ==
    /\ op = "convert_pair"
    /\ arg = Specific(Height(<<0, 0, 0, 0>>, <<0, 0, 0, 1>>))
    /\ arg2 = Specific(Height(<<0, 0, 0, 1>>, <<0, 0, 0, 1>>))
    /\ res.block = Ok(<<0, 0, 0, 1>>)
    /\ res.metadata = Ok(<<49>>)
    /\ res2 = res

====
